---- MODULE Spec2Model ----
(***************************************************************************)
(* CVATTools: masks from a CVAT annotations.xml.                           *)
(*                                                                         *)
(* Four specifications over one set of variables:                          *)
(*   SpecParse  Geometry::parse_points, one loop iteration per step        *)
(*   SpecDraw   Geometry::draw_mask applied repeatedly to one canvas       *)
(*   SpecImage  Image::mask_combined / mask / masks and                    *)
(*              CVATMaskGenerator::masks applied to one image              *)
(*   Spec       main and write_masks_to_directory with its per-image tasks *)
(* Each specification leaves the variables of the others untouched.        *)
(***************************************************************************)
EXTENDS Integers, Sequences, FiniteSets, TLC

VARIABLES
    \* SpecParse
    in_pairs,   \* the n pairs the points attribute was written from
    in_trail,   \* number of trailing ';' after the last pair
    str,        \* the points attribute (ptr_start .. ptr_end)
    cur,        \* parse_points: cur, as a 1-based index into str
    pts,        \* parse_points: pts
    ppc,        \* parse_points: "loop" or "done"
    \* SpecDraw
    canvas,     \* the cv::Mat drawn on: [w, h, fg]
    before,     \* canvas as it was before the last draw_mask call
    last,       \* the geometry of the last draw_mask call
    ndraw,      \* number of draw_mask calls so far
    \* SpecImage
    image,      \* the <image> node: [name, width, height, geos]
    op,         \* the last call: [name, label, filename]
    ret,        \* what the call returned
    \* Spec
    doc,        \* the loaded document: [root, catalog, labels, images]
    sink,       \* how cv::imwrite behaves on a non-empty mask in this run
    pc,         \* position of main / write_masks_to_directory
    idx,        \* loop index of the current loop of write_masks_to_directory
    dirs,       \* label directories that exist under the output directory
    task,       \* per image: [st, li] state of its std::async task
    writes,     \* log of cv::imwrite calls: [task, li, path, result]
    files       \* path -> mask, the files on disk under the output directory

parseVars == <<in_pairs, in_trail, str, cur, pts, ppc>>
drawVars  == <<canvas, before, last, ndraw>>
imageVars == <<image, op, ret>>
pipeVars  == <<doc, sink, pc, idx, dirs, task, writes, files>>
vars == <<in_pairs, in_trail, str, cur, pts, ppc, canvas, before, last, ndraw,
          image, op, ret, doc, sink, pc, idx, dirs, task, writes, files>>

(***************************************************************************)
(* Bounds                                                                  *)
(***************************************************************************)
MaxPairs  == 2    \* pairs in a points attribute of SpecParse
MaxTrail  == 2    \* trailing ';' in a points attribute of SpecParse
MaxDraws  == 2    \* draw_mask calls on one canvas in SpecDraw
MaxGeos   == 2    \* geometries of the image of SpecImage
MaxLabels == 2    \* labels of the catalog in Spec
MaxImages == 2    \* images of the document in Spec

(***************************************************************************)
(* Strings are sequences of one-character strings.                         *)
(***************************************************************************)
Digits == <<"0", "1", "2", "3", "4", "5", "6", "7", "8", "9">>

IsDigit(c) == \E i \in DOMAIN Digits : Digits[i] = c

DigitVal(c) == (CHOOSE i \in DOMAIN Digits : Digits[i] = c) - 1

RECURSIVE NatToStr(_)
NatToStr(n) ==
    IF n < Len(Digits) THEN <<Digits[n + 1]>>
    ELSE NatToStr(n \div Len(Digits)) \o <<Digits[(n % Len(Digits)) + 1]>>

IntToStr(n) == IF n < 0 THEN <<"-">> \o NatToStr(-n) ELSE NatToStr(n)

\* The points attribute CVAT writes for the pairs ps: x1,y1;x2,y2;...;xn,yn
RECURSIVE JoinPoints(_)
JoinPoints(ps) ==
    IF ps = <<>> THEN <<>>
    ELSE IntToStr(ps[1][1]) \o <<",">> \o IntToStr(ps[1][2])
         \o (IF Len(ps) > 1 THEN <<";">> \o JoinPoints(Tail(ps)) ELSE <<>>)

FormatPoints(ps, trail) == JoinPoints(ps) \o [i \in 1..trail |-> ";"]

(***************************************************************************)
(* Geometry::parse_points (and its copy CVATMaskGenerator::parse_points)   *)
(***************************************************************************)
\* A value read from an int that was never written (int x, y; left alone by
\* a std::from_chars that matched nothing): any int, sampled.
Indeterminate == {-1, 0, 12345}

\* ptr_end: one past the last character
ptr_end(s) == Len(s) + 1

\* strchr(cur, c): the first position >= from holding c, 0 for nullptr
StrChr(s, from, c) ==
    IF \E i \in from..Len(s) : s[i] = c
    THEN CHOOSE i \in from..Len(s) :
             s[i] = c /\ \A j \in from..(i - 1) : s[j] # c
    ELSE 0

\* number of leading digits of s[first .. lst-1]
RECURSIVE DigitRun(_, _, _)
DigitRun(s, first, lst) ==
    IF first < lst /\ first <= Len(s) /\ IsDigit(s[first])
    THEN 1 + DigitRun(s, first + 1, lst)
    ELSE 0

RECURSIVE DigitsValue(_, _, _)
DigitsValue(s, first, n) ==
    IF n = 0 THEN 0
    ELSE DigitsValue(s, first, n - 1) * Len(Digits) + DigitVal(s[first + n - 1])

\* std::from_chars(first, lst, value) for int, base 10: an optional '-', then
\* digits up to the first other character. The set of values the int can hold
\* afterwards: the parsed value, or an indeterminate one when nothing matched
\* (the int is left unwritten) or when first > lst (not a valid range).
from_chars(s, first, lst) ==
    IF first > lst THEN Indeterminate
    ELSE LET neg   == first < lst /\ first <= Len(s) /\ s[first] = "-"
             start == IF neg THEN first + 1 ELSE first
             n     == DigitRun(s, start, lst)
             v     == DigitsValue(s, start, n)
         IN  IF n = 0 THEN Indeterminate
             ELSE {IF neg THEN -v ELSE v}

x_coord_end(s, c) == IF StrChr(s, c, ",") = 0 THEN ptr_end(s) ELSE StrChr(s, c, ",")

y_coord_end(s, c) == IF StrChr(s, c, ";") = 0 THEN ptr_end(s) ELSE StrChr(s, c, ";")

\* One iteration of the while loop at position c: the points it can append.
ParseIteration(s, c) ==
    {<<x, y>> : x \in from_chars(s, c, x_coord_end(s, c)),
                y \in from_chars(s, x_coord_end(s, c) + 1, y_coord_end(s, c))}

\* parse_points as a function of the attribute, for the callers in draw_mask;
\* where an iteration has several outcomes one of them is taken.
RECURSIVE parse_points_from(_, _)
parse_points_from(s, c) ==
    IF c < ptr_end(s)
    THEN <<CHOOSE p \in ParseIteration(s, c) : TRUE>>
         \o parse_points_from(s, y_coord_end(s, c) + 1)
    ELSE <<>>

parse_points(s) == parse_points_from(s, 1)

\* The attributes SpecParse parses.
PairSamples == {<<10, 20>>, <<30, 40>>, <<0, -5>>, <<7, 7>>}

PairSeqs == UNION {[1..n -> PairSamples] : n \in 0..MaxPairs}

InitParse ==
    /\ in_pairs \in PairSeqs
    \* trailing separators follow a last pair; the empty attribute has none
    /\ in_trail \in (IF in_pairs = <<>> THEN {0} ELSE 0..MaxTrail)
    /\ str = FormatPoints(in_pairs, in_trail)
    /\ cur = 1
    /\ pts = <<>>
    /\ ppc = "loop"

IdleParse ==
    /\ in_pairs = <<>>
    /\ in_trail = 0
    /\ str = <<>>
    /\ cur = 1
    /\ pts = <<>>
    /\ ppc = "idle"

\* while (cur < ptr_end) { ...; cur = y_coord_end + 1; pts.emplace_back(x, y); }
ParseLoop ==
    /\ ppc = "loop"
    /\ cur < ptr_end(str)
    /\ \E p \in ParseIteration(str, cur) : pts' = Append(pts, p)
    /\ cur' = y_coord_end(str, cur) + 1
    /\ UNCHANGED <<in_pairs, in_trail, str, ppc>>
    /\ UNCHANGED <<drawVars, imageVars, pipeVars>>

\* return pts;
ParseReturn ==
    /\ ppc = "loop"
    /\ ~(cur < ptr_end(str))
    /\ ppc' = "done"
    /\ UNCHANGED <<in_pairs, in_trail, str, cur, pts>>
    /\ UNCHANGED <<drawVars, imageVars, pipeVars>>

NextParse == ParseLoop \/ ParseReturn

(***************************************************************************)
(* cv::Mat and the OpenCV drawing calls of Geometry::draw_mask. A mask is   *)
(* [w, h, fg]: fg is the set of pixels <<x, y>> holding 255, every other    *)
(* pixel of (0..w-1) x (0..h-1) holds 0. Drawing is clipped to the canvas.  *)
(***************************************************************************)
Pixels(w, h) == (0..(w - 1)) \X (0..(h - 1))

\* cv::Mat(rows, cols, CV_8UC1, (unsigned char)0)
cv_Mat(rows, cols) == [w |-> cols, h |-> rows, fg |-> {}]

\* cv::Mat::empty()
cv_Mat_empty(mat) == mat.w = 0 \/ mat.h = 0

Abs(n) == IF n < 0 THEN -n ELSE n

Max(a, b) == IF a > b THEN a ELSE b

\* n * num / den rounded to the nearest integer
RoundDiv(num, den) == (2 * num + den) \div (2 * den)

\* the 8-connected line from p to q, both ends included
cv_line(p, q) ==
    LET dx == q[1] - p[1]
        dy == q[2] - p[2]
        n  == Max(Abs(dx), Abs(dy))
    IN  IF n = 0 THEN {p}
        ELSE {<<p[1] + RoundDiv(i * dx, n), p[2] + RoundDiv(i * dy, n)>> : i \in 0..n}

\* cv::Rect{x, y, width, height}
cv_Rect(x, y, width, height) == [x |-> x, y |-> y, width |-> width, height |-> height]

\* cv::rectangle filling up to rec.br() itself
cv_rectangle_to_br(rec) ==
    IF rec.width <= 0 \/ rec.height <= 0 THEN {}
    ELSE (rec.x .. (rec.x + rec.width)) \X (rec.y .. (rec.y + rec.height))

\* cv::rectangle(img, rec, 255, cv::FILLED): nothing for an empty rec, else
\* the filled rectangle from rec.tl() to rec.br() - (1, 1), corners included
cv_rectangle(rec) ==
    IF rec.width <= 0 \/ rec.height <= 0 THEN {}
    ELSE (rec.x .. (rec.x + rec.width - 1)) \X (rec.y .. (rec.y + rec.height - 1))

\* cv::circle(img, p, 0, 255, cv::FILLED): the pixel p
cv_circle0(p) == {p}

\* cv::polylines(img, pts, false, 255): the open path through pts
cv_polylines(ps) ==
    UNION {cv_line(ps[i], ps[i + 1]) : i \in 1..(Len(ps) - 1)}

\* does the horizontal ray from pixel <<x, y>> to the right cross edge p-q
Crosses(x, y, p, q) ==
    /\ (p[2] > y) # (q[2] > y)
    /\ IF q[2] > p[2]
       THEN (x - p[1]) * (q[2] - p[2]) < (y - p[2]) * (q[1] - p[1])
       ELSE (x - p[1]) * (q[2] - p[2]) > (y - p[2]) * (q[1] - p[1])

\* cv::fillPoly(img, pts, 255): the closed outline of pts and its inside
cv_fillPoly(ps, w, h) ==
    LET n     == Len(ps)
        nxt(i) == IF i = n THEN 1 ELSE i + 1
        edge  == UNION {cv_line(ps[i], ps[nxt(i)]) : i \in 1..n}
        cnt(px) == Cardinality({i \in 1..n : Crosses(px[1], px[2], ps[i], ps[nxt(i)])})
    IN  edge \cup {px \in Pixels(w, h) : cnt(px) % 2 = 1}

\* cv::ellipse(img, (cx, cy), (rx, ry), 0, 0, 360, 255, cv::FILLED)
cv_ellipse(cx, cy, rx, ry, w, h) ==
    {px \in Pixels(w, h) :
        LET dx == px[1] - cx
            dy == px[2] - cy
        IN  IF rx = 0 \/ ry = 0
            THEN (rx = 0 => dx = 0) /\ (ry = 0 => dy = 0)
                 /\ Abs(dx) <= rx /\ Abs(dy) <= ry
            ELSE dx * dx * ry * ry + dy * dy * rx * rx <= rx * rx * ry * ry}

(***************************************************************************)
(* Geometry: a child node of <image>. An attribute the node does not have   *)
(* reads as 0 (as_int) or as the empty string (as_string), so every         *)
(* geometry carries every attribute.                                        *)
(***************************************************************************)
\* Geometry::group() of a node without group_id: std::nullopt
NoGroup == -1

Geo(kind, label, group, a, b, c, d, points) ==
    [kind |-> kind, label |-> label, group |-> group,
     xtl |-> IF kind = "box" THEN a ELSE 0, ytl |-> IF kind = "box" THEN b ELSE 0,
     xbr |-> IF kind = "box" THEN c ELSE 0, ybr |-> IF kind = "box" THEN d ELSE 0,
     cx |-> IF kind = "ellipse" THEN a ELSE 0, cy |-> IF kind = "ellipse" THEN b ELSE 0,
     rx |-> IF kind = "ellipse" THEN c ELSE 0, ry |-> IF kind = "ellipse" THEN d ELSE 0,
     points |-> points]

\* the pixels Geometry::draw_mask asks OpenCV to set on a w x h canvas
Footprint(geo, w, h) ==
    IF geo.kind = "polygon" THEN cv_fillPoly(parse_points(geo.points), w, h)
    ELSE IF geo.kind = "box"
    THEN cv_rectangle(cv_Rect(geo.xtl, geo.ytl, geo.xbr - geo.xtl, geo.ybr - geo.ytl))
    ELSE IF geo.kind = "points"
    THEN UNION {cv_circle0(parse_points(geo.points)[i]) :
                    i \in 1..Len(parse_points(geo.points))}
    ELSE IF geo.kind = "polyline" THEN cv_polylines(parse_points(geo.points))
    ELSE IF geo.kind = "ellipse" THEN cv_ellipse(geo.cx, geo.cy, geo.rx, geo.ry, w, h)
    ELSE {}

\* draw_mask replacing what the canvas holds instead of drawing over it
draw_mask_replacing(geo, in_out) ==
    [in_out EXCEPT !.fg = Footprint(geo, in_out.w, in_out.h)
                            \cap Pixels(in_out.w, in_out.h)]

\* Geometry::draw_mask(in_out): in_out afterwards
draw_mask(geo, in_out) ==
    [in_out EXCEPT !.fg = @ \cup (Footprint(geo, in_out.w, in_out.h)
                                     \cap Pixels(in_out.w, in_out.h))]

(***************************************************************************)
(* SpecDraw: draw_mask calls on one canvas.                                 *)
(***************************************************************************)
BoxCoords == {-1, 2, 5}

BoxSamples ==
    {Geo("box", "A", NoGroup, a, b, c, d, <<>>) :
        a \in BoxCoords, b \in BoxCoords, c \in BoxCoords, d \in BoxCoords}

\* one geometry of every other kind draw_mask tells apart
Polygon0  == Geo("polygon", "A", NoGroup, 0, 0, 0, 0,
                 FormatPoints(<<<<0, 0>>, <<2, 0>>, <<2, 2>>, <<0, 2>>>>, 0))
Points0   == Geo("points", "A", NoGroup, 0, 0, 0, 0,
                 FormatPoints(<<<<2, 2>>, <<1, 1>>>>, 0))
Polyline0 == Geo("polyline", "A", NoGroup, 0, 0, 0, 0,
                 FormatPoints(<<<<0, 1>>, <<2, 1>>>>, 0))
Ellipse0  == Geo("ellipse", "A", NoGroup, 1, 2, 0, 0, <<>>)
Cuboid0   == Geo("cuboid", "A", NoGroup, 0, 0, 0, 0, <<>>)
NoGeo     == Geo("", "", NoGroup, 0, 0, 0, 0, <<>>)

DrawGeos == BoxSamples \cup {Polygon0, Points0, Polyline0, Ellipse0, Cuboid0}

\* <<width, height>> of the canvases of SpecDraw
DrawDims == {<<0, 0>>, <<3, 3>>, <<10, 10>>}

InitDraw ==
    /\ \E d \in DrawDims : canvas = cv_Mat(d[2], d[1])
    /\ before = canvas
    /\ last = NoGeo
    /\ ndraw = 0

IdleDraw ==
    /\ canvas = cv_Mat(0, 0)
    /\ before = canvas
    /\ last = NoGeo
    /\ ndraw = 0

\* geo.draw_mask(canvas)
Draw ==
    /\ ndraw < MaxDraws
    /\ \E geo \in DrawGeos :
          /\ canvas' = draw_mask(geo, canvas)
          /\ last' = geo
    /\ before' = canvas
    /\ ndraw' = ndraw + 1
    /\ UNCHANGED <<parseVars, imageVars, pipeVars>>

NextDraw == Draw

(***************************************************************************)
(* Image. A cv::Mat is a handle on a shared buffer: copying or assigning a  *)
(* Mat aliases the buffer. The loops below keep the buffers in bufs and     *)
(* hold a Mat as an index into bufs.                                        *)
(***************************************************************************)
\* Image::empty_mask()
empty_mask(img) == cv_Mat(img.height, img.width)

\* Image::filename()
filename(img) == img.name

\* Image::mask_combined(label)
RECURSIVE mask_combined_loop(_, _, _, _)
mask_combined_loop(img, label, i, result) ==
    IF i > Len(img.geos) THEN result
    ELSE IF img.geos[i].label # label
    THEN mask_combined_loop(img, label, i + 1, result)
    ELSE mask_combined_loop(img, label, i + 1, draw_mask(img.geos[i], result))

mask_combined(img, label) == mask_combined_loop(img, label, 1, empty_mask(img))

\* the Mats a call returns: each with the buffer it points to
Deref(bufs, id) == [data |-> id, w |-> bufs[id].w, h |-> bufs[id].h, fg |-> bufs[id].fg]

\* Image::mask(label): s = [bufs, groups, result]
RECURSIVE Image_mask_loop(_, _, _, _)
Image_mask_loop(img, label, i, s) ==
    IF i > Len(img.geos) THEN s
    ELSE IF img.geos[i].label # label THEN Image_mask_loop(img, label, i + 1, s)
    ELSE LET geo    == img.geos[i]
             group  == geo.group
             bufs1  == Append(s.bufs, empty_mask(img))
             fresh  == Len(bufs1)
             \* groups.insert({group.value(), mat}).first->second
             groups == IF group # NoGroup /\ group \notin DOMAIN s.groups
                       THEN (group :> fresh) @@ s.groups
                       ELSE s.groups
             mat    == IF group # NoGroup THEN groups[group] ELSE fresh
         IN  Image_mask_loop(img, label, i + 1,
                 [bufs   |-> [bufs1 EXCEPT ![mat] = draw_mask(geo, @)],
                  groups |-> groups,
                  result |-> Append(s.result, mat)])

Image_mask(img, label) ==
    LET s == Image_mask_loop(img, label, 1, [bufs |-> <<>>, groups |-> <<>>, result |-> <<>>])
    IN  [k \in DOMAIN s.result |-> Deref(s.bufs, s.result[k])]

\* Image::masks(): s = [bufs, groups, result], result maps a label to its Mat
RECURSIVE Image_masks_loop(_, _, _)
Image_masks_loop(img, i, s) ==
    IF i > Len(img.geos) THEN s
    ELSE LET geometry == img.geos[i]
             label  == geometry.label
             isnew  == label \notin DOMAIN s.result
             bufs1  == IF isnew THEN Append(s.bufs, cv_Mat(img.height, img.width))
                       ELSE s.bufs
             \* result.try_emplace(label, h, w, CV_8UC1, 0).first->second
             result == IF isnew THEN (label :> Len(bufs1)) @@ s.result ELSE s.result
             group  == geometry.group
             \* groups.try_emplace(group.value(), mat).first->second
             groups == IF group # NoGroup /\ group \notin DOMAIN s.groups
                       THEN (group :> result[label]) @@ s.groups
                       ELSE s.groups
             mat    == IF group # NoGroup THEN groups[group] ELSE result[label]
         IN  Image_masks_loop(img, i + 1,
                 [bufs   |-> [bufs1 EXCEPT ![mat] = draw_mask(geometry, @)],
                  groups |-> groups,
                  result |-> result])

Image_masks(img) ==
    LET s == Image_masks_loop(img, 1, [bufs |-> <<>>, groups |-> <<>>, result |-> <<>>])
    IN  [l \in DOMAIN s.result |-> Deref(s.bufs, s.result[l])]

\* CVATMaskGenerator::masks(filename, label), the loop over the geometries of
\* one image: s = [bufs, group_ids, mats]
RECURSIVE masks_geometry_loop(_, _, _, _)
masks_geometry_loop(img, label, i, s) ==
    IF i > Len(img.geos) THEN s
    ELSE IF label # img.geos[i].label THEN masks_geometry_loop(img, label, i + 1, s)
    ELSE LET geometry == img.geos[i]
             group_id == geometry.group
             isnew    == group_id = NoGroup \/ group_id \notin DOMAIN s.group_ids
             bufs1    == IF isnew THEN Append(s.bufs, cv_Mat(img.height, img.width))
                         ELSE s.bufs
             group_ids == IF group_id # NoGroup /\ isnew
                          THEN (group_id :> Len(bufs1)) @@ s.group_ids
                          ELSE s.group_ids
             mask     == IF group_id = NoGroup THEN Len(bufs1) ELSE group_ids[group_id]
         IN  masks_geometry_loop(img, label, i + 1,
                 [bufs      |-> [bufs1 EXCEPT ![mask] = draw_mask(geometry, @)],
                  group_ids |-> group_ids,
                  mats      |-> Append(s.mats, mask)])

\* the loop over the images: group_ids starts empty for every image
RECURSIVE masks_image_loop(_, _, _, _, _)
masks_image_loop(images, fname, label, k, s) ==
    IF k > Len(images) THEN s
    ELSE IF fname # images[k].name THEN masks_image_loop(images, fname, label, k + 1, s)
    ELSE masks_image_loop(images, fname, label, k + 1,
             masks_geometry_loop(images[k], label, 1,
                 [bufs |-> s.bufs, group_ids |-> <<>>, mats |-> s.mats]))

CVATMaskGenerator_masks(images, fname, label) ==
    LET s == masks_image_loop(images, fname, label, 1,
                 [bufs |-> <<>>, group_ids |-> <<>>, mats |-> <<>>])
    IN  [k \in DOMAIN s.mats |-> Deref(s.bufs, s.mats[k])]

(***************************************************************************)
(* SpecImage: the mask calls on one image of a document.                    *)
(***************************************************************************)
Box0 == Geo("box", "A", NoGroup, 0, 0, 2, 2, <<>>)

ImageShapes == {Box0, Points0, Cuboid0}

ImageLabels == {"A", "B"}

ImageGroups == {NoGroup, 1, 2}

ImageGeos ==
    {[sh EXCEPT !.label = l, !.group = g] :
        sh \in ImageShapes, l \in ImageLabels, g \in ImageGroups}

\* <<width, height>> of the image of SpecImage; a missing attribute reads as 0
ImageDims == {<<3, 3>>, <<0, 3>>}

\* a label no geometry carries, besides the labels that occur
QueryLabels == ImageLabels \cup {"Z"}

\* another image of the same document
Sibling ==
    [name |-> <<"o", ".", "jpg">>, width |-> 3, height |-> 3,
     geos |-> <<[Box0 EXCEPT !.group = 1]>>]

ImageName == <<"a", ".", "jpg">>

\* m_annotations.children("image") of the document of SpecImage
DocImages == <<image, Sibling>>

NoOp == [name |-> "", label |-> "", filename |-> <<>>]

InitImage ==
    /\ \E d \in ImageDims, n \in 0..MaxGeos : \E gs \in [1..n -> ImageGeos] :
          image = [name |-> ImageName, width |-> d[1], height |-> d[2], geos |-> gs]
    /\ op = NoOp
    /\ ret = <<>>

IdleImage ==
    /\ image = [name |-> <<>>, width |-> 0, height |-> 0, geos |-> <<>>]
    /\ op = NoOp
    /\ ret = <<>>

CallMaskCombined ==
    /\ op = NoOp
    /\ \E l \in QueryLabels :
          /\ op' = [name |-> "mask_combined", label |-> l, filename |-> filename(image)]
          /\ ret' = mask_combined(image, l)
    /\ UNCHANGED <<image, parseVars, drawVars, pipeVars>>

CallMask ==
    /\ op = NoOp
    /\ \E l \in QueryLabels :
          /\ op' = [name |-> "mask", label |-> l, filename |-> filename(image)]
          /\ ret' = Image_mask(image, l)
    /\ UNCHANGED <<image, parseVars, drawVars, pipeVars>>

CallMasks ==
    /\ op = NoOp
    /\ op' = [name |-> "masks", label |-> "", filename |-> filename(image)]
    /\ ret' = Image_masks(image)
    /\ UNCHANGED <<image, parseVars, drawVars, pipeVars>>

CallGeneratorMasks ==
    /\ op = NoOp
    /\ \E l \in QueryLabels, f \in {filename(image), filename(Sibling)} :
          /\ op' = [name |-> "generator_masks", label |-> l, filename |-> f]
          /\ ret' = CVATMaskGenerator_masks(DocImages, f, l)
    /\ UNCHANGED <<image, parseVars, drawVars, pipeVars>>

NextImage == CallMaskCombined \/ CallMask \/ CallMasks \/ CallGeneratorMasks

(***************************************************************************)
(* Spec: main and write_masks_to_directory.                                 *)
(***************************************************************************)
\* position of the last '.' of a file name, 0 when it has none
LastDot(name) ==
    IF \E i \in DOMAIN name : name[i] = "."
    THEN CHOOSE i \in DOMAIN name :
             name[i] = "." /\ \A j \in (i + 1)..Len(name) : name[j] # "."
    ELSE 0

\* extension() taken from the first '.' of the name instead of the last
extension_from_first_dot(name) ==
    IF LastDot(name) <= 1 \/ name = <<".", ".">> THEN <<>>
    ELSE SubSeq(name, CHOOSE i \in DOMAIN name :
                          name[i] = "." /\ \A j \in 1..(i - 1) : name[j] # ".",
                Len(name))

\* std::filesystem::path::extension() of a plain file name: from the last
\* '.' on, unless the name has no '.', starts with its only '.', or is ".."
extension(name) ==
    IF LastDot(name) <= 1 \/ name = <<".", ".">> THEN <<>>
    ELSE SubSeq(name, LastDot(name), Len(name))

\* std::filesystem::path::replace_extension(".png")
replace_extension(name) ==
    SubSeq(name, 1, Len(name) - Len(extension(name))) \o <<".", "png">>

\* output_directory / l / filename, relative to output_directory
OutputPath(l, fname) == <<l, fname>>

\* CVATMaskGenerator::labels(): the names under meta/task/labels
labels(d) == IF d.root /\ d.catalog THEN d.labels ELSE <<>>

\* CVATMaskGenerator::images(): the <image> children of <annotations>
images(d) == IF d.root THEN d.images ELSE <<>>

\* cv::imwrite(path, mat): throws on an empty Mat (CV_Assert(!_img.empty()));
\* on any other Mat it writes the file, returns false or throws, as the disk
\* and the encoder of this run allow
imwrite(mat) == IF cv_Mat_empty(mat) THEN "throw" ELSE sink

\* a wait that returns at once
FutureReadyAtOnce(t) == TRUE

\* f.wait(): blocks until the task has returned or thrown
FutureReady(t) == t.st \in {"done", "threw"}

CatalogLabels == <<"A", "B", "C", "D">>

PipeImages ==
    {[name |-> <<"a", ".", "jpg">>, width |-> 3, height |-> 3, geos |-> <<Box0>>],
     [name |-> <<"a", ".", "png">>, width |-> 3, height |-> 3,
      geos |-> <<[Points0 EXCEPT !.label = "B"]>>],
     [name |-> <<"b", ".", "jpg">>, width |-> 3, height |-> 3, geos |-> <<>>],
     \* an image without width, and one without height
     [name |-> <<"b", ".", "c", ".", "jpg">>, width |-> 0, height |-> 3,
      geos |-> <<Box0>>],
     [name |-> <<"d">>, width |-> 3, height |-> 0, geos |-> <<>>]}

\* What pugixml holds after doc.load_file: nothing under a missing root, no
\* label under a missing labels node.
Docs ==
    {[root |-> FALSE, catalog |-> FALSE, labels |-> <<>>, images |-> <<>>]}
    \cup {[root |-> TRUE, catalog |-> c, labels |-> ls, images |-> is] :
            c \in BOOLEAN,
            ls \in {SubSeq(CatalogLabels, 1, n) : n \in 0..MaxLabels},
            is \in UNION {[1..n -> PipeImages] : n \in 0..MaxImages}}

InitPipe ==
    /\ doc \in {d \in Docs : ~d.catalog => d.labels = <<>>}
    /\ sink \in {"ok", "false", "throw"}
    /\ pc = "main"
    /\ idx = 1
    /\ dirs = {}
    /\ task = [i \in DOMAIN doc.images |-> [st |-> "unlaunched", li |-> 1]]
    /\ writes = {}
    /\ files = <<>>

\* main calls write_masks_to_directory: from_file (the result of load_file
\* is not looked at) and generator.labels()
CallWrite ==
    /\ pc = "main"
    /\ pc' = "mkdirs"
    /\ idx' = 1
    /\ UNCHANGED <<doc, sink, dirs, task, writes, files>>
    /\ UNCHANGED <<parseVars, drawVars, imageVars>>

\* for (auto &&l : labels): create the label directory unless it exists
Mkdir ==
    /\ pc = "mkdirs"
    /\ idx <= Len(labels(doc))
    /\ dirs' = dirs \cup {labels(doc)[idx]}
    /\ idx' = idx + 1
    /\ UNCHANGED <<doc, sink, pc, task, writes, files>>
    /\ UNCHANGED <<parseVars, drawVars, imageVars>>

\* std::filesystem::create_directories throws: no task was launched yet, the
\* exception reaches the catch of main
MkdirThrows ==
    /\ pc = "mkdirs"
    /\ idx <= Len(labels(doc))
    /\ pc' = "exit1"
    /\ UNCHANGED <<doc, sink, idx, dirs, task, writes, files>>
    /\ UNCHANGED <<parseVars, drawVars, imageVars>>

MkdirsDone ==
    /\ pc = "mkdirs"
    /\ idx > Len(labels(doc))
    /\ pc' = "launch"
    /\ idx' = 1
    /\ UNCHANGED <<doc, sink, dirs, task, writes, files>>
    /\ UNCHANGED <<parseVars, drawVars, imageVars>>

\* futures.push_back(std::async(std::launch::async, ...)) for the next image
Launch ==
    /\ pc = "launch"
    /\ idx <= Len(images(doc))
    /\ task' = [task EXCEPT ![idx].st = "running"]
    /\ idx' = idx + 1
    /\ UNCHANGED <<doc, sink, pc, dirs, writes, files>>
    /\ UNCHANGED <<parseVars, drawVars, imageVars>>

\* std::async throws (no thread to be had): the futures vector is destroyed
\* while the exception unwinds
LaunchThrows ==
    /\ pc = "launch"
    /\ idx <= Len(images(doc))
    /\ pc' = "unwind"
    /\ UNCHANGED <<doc, sink, idx, dirs, task, writes, files>>
    /\ UNCHANGED <<parseVars, drawVars, imageVars>>

\* the destructor of a future of std::async blocks until its task is over
Unwind ==
    /\ pc = "unwind"
    /\ \A i \in DOMAIN task : task[i].st # "unlaunched" => FutureReady(task[i])
    /\ pc' = "exit1"
    /\ UNCHANGED <<doc, sink, idx, dirs, task, writes, files>>
    /\ UNCHANGED <<parseVars, drawVars, imageVars>>

LaunchDone ==
    /\ pc = "launch"
    /\ idx > Len(images(doc))
    /\ pc' = "wait"
    /\ idx' = 1
    /\ UNCHANGED <<doc, sink, dirs, task, writes, files>>
    /\ UNCHANGED <<parseVars, drawVars, imageVars>>

\* the task of image i: one turn of for (auto &&l : labels)
TaskWrite(i) ==
    /\ task[i].st = "running"
    /\ task[i].li <= Len(labels(doc))
    /\ LET image_i == images(doc)[i]
           l    == labels(doc)[task[i].li]
           fname == replace_extension(filename(image_i))
           mat  == mask_combined(image_i, l)
           path == OutputPath(l, fname)
           res  == imwrite(mat)
       IN  /\ writes' = writes \cup
                  {[task |-> i, li |-> task[i].li, path |-> path, result |-> res]}
           /\ files' = IF res = "ok" THEN (path :> mat) @@ files ELSE files
           /\ task' = IF res = "throw"
                      THEN [task EXCEPT ![i].st = "threw"]
                      ELSE [task EXCEPT ![i].li = @ + 1]
    /\ UNCHANGED <<doc, sink, pc, idx, dirs>>
    /\ UNCHANGED <<parseVars, drawVars, imageVars>>

\* the task of image i returns
TaskReturn(i) ==
    /\ task[i].st = "running"
    /\ task[i].li > Len(labels(doc))
    /\ task' = [task EXCEPT ![i].st = "done"]
    /\ UNCHANGED <<doc, sink, pc, idx, dirs, writes, files>>
    /\ UNCHANGED <<parseVars, drawVars, imageVars>>

\* for (auto &&f : futures) f.wait();
Wait ==
    /\ pc = "wait"
    /\ idx <= Len(images(doc))
    /\ FutureReady(task[idx])
    /\ idx' = idx + 1
    /\ UNCHANGED <<doc, sink, pc, dirs, task, writes, files>>
    /\ UNCHANGED <<parseVars, drawVars, imageVars>>

\* write_masks_to_directory returns to main
WaitDone ==
    /\ pc = "wait"
    /\ idx > Len(images(doc))
    /\ pc' = "returned"
    /\ UNCHANGED <<doc, sink, idx, dirs, task, writes, files>>
    /\ UNCHANGED <<parseVars, drawVars, imageVars>>

\* main prints the processing time and returns 0
Return0 ==
    /\ pc = "returned"
    /\ pc' = "exit0"
    /\ UNCHANGED <<doc, sink, idx, dirs, task, writes, files>>
    /\ UNCHANGED <<parseVars, drawVars, imageVars>>

Next ==
    \/ CallWrite \/ Mkdir \/ MkdirThrows \/ MkdirsDone
    \/ Launch \/ LaunchThrows \/ Unwind \/ LaunchDone
    \/ (\E i \in DOMAIN task : TaskWrite(i))
    \/ (\E i \in DOMAIN task : TaskReturn(i))
    \/ Wait \/ WaitDone \/ Return0

IdlePipe ==
    /\ doc = [root |-> FALSE, catalog |-> FALSE, labels |-> <<>>, images |-> <<>>]
    /\ sink = "ok"
    /\ pc = "idle"
    /\ idx = 1
    /\ dirs = {}
    /\ task = <<>>
    /\ writes = {}
    /\ files = <<>>

InitSpecParse == InitParse /\ IdleDraw /\ IdleImage /\ IdlePipe

InitSpecDraw == IdleParse /\ InitDraw /\ IdleImage /\ IdlePipe

InitSpecImage == IdleParse /\ IdleDraw /\ InitImage /\ IdlePipe

InitSpec == IdleParse /\ IdleDraw /\ IdleImage /\ InitPipe

Spec == InitSpec /\ [][Next]_vars

SpecParse == InitSpecParse /\ [][NextParse]_vars

SpecDraw == InitSpecDraw /\ [][NextDraw]_vars

SpecImage == InitSpecImage /\ [][NextImage]_vars

(***************************************************************************)
(* Claims about parse_points (SpecParse)                                    *)
(***************************************************************************)
\* C4: parse_points of x1,y1;...;xn,yn followed by any number of trailing
\* ';' returns exactly the n pairs in input order, with no extra pair.
C4_ParseExact == ppc = "done" => pts = in_pairs

\* What the loop does return: the n pairs when the attribute ends with the
\* last pair or with one ';' after it ...
ParseExactUpToOneTrail == (ppc = "done" /\ in_trail <= 1) => pts = in_pairs

\* ... and one more pair of indeterminate ints for every further ';'.
ParseExtraPairs ==
    (ppc = "done" /\ in_trail >= 1)
        => /\ Len(pts) = Len(in_pairs) + in_trail - 1
           /\ SubSeq(pts, 1, Len(in_pairs)) = in_pairs

(***************************************************************************)
(* Claims about draw_mask (SpecDraw)                                        *)
(***************************************************************************)
BoxInclusive(geo, w, h) ==
    {px \in Pixels(w, h) : /\ geo.xtl <= px[1] /\ px[1] <= geo.xbr
                           /\ geo.ytl <= px[2] /\ px[2] <= geo.ybr}

BoxHalfOpen(geo, w, h) ==
    {px \in Pixels(w, h) : /\ geo.xtl <= px[1] /\ px[1] < geo.xbr
                           /\ geo.ytl <= px[2] /\ px[2] < geo.ybr}

ExampleBox == Geo("box", "A", NoGroup, 2, 2, 5, 5, <<>>)

\* C5 as stated: draw_mask of a box sets exactly the pixels with
\* xtl <= x <= xbr and ytl <= y <= ybr and leaves every other pixel unchanged.
C5_BoxInclusive ==
    (ndraw > 0 /\ last.kind = "box")
        => canvas = [before EXCEPT !.fg = @ \cup BoxInclusive(last, before.w, before.h)]

\* C5 amended: draw_mask of a box sets exactly the pixels of the canvas with
\* xtl <= x < xbr and ytl <= y < ybr and leaves every other pixel unchanged;
\* box (2, 2, 5, 5) on an empty 10x10 canvas gives columns 2..4, rows 2..4.
C5_BoxHalfOpen ==
    /\ (ndraw > 0 /\ last.kind = "box")
          => canvas = [before EXCEPT !.fg = @ \cup BoxHalfOpen(last, before.w, before.h)]
    /\ (ndraw > 0 /\ last = ExampleBox /\ before = cv_Mat(10, 10))
          => canvas.fg = (2..4) \X (2..4)

\* a second box drawn over a first one on the 10x10 canvas
C5_Witness ==
    /\ ndraw > 1
    /\ last = ExampleBox
    /\ before.w = 10 /\ before.h = 10
    /\ before.fg # {}
    /\ canvas.fg # before.fg
    /\ canvas.fg # BoxHalfOpen(last, canvas.w, canvas.h)

(***************************************************************************)
(* Claims about the mask calls (SpecImage)                                  *)
(***************************************************************************)
\* indexes of the geometries of img with the label
WithLabel(img, label) == {i \in DOMAIN img.geos : img.geos[i].label = label}

\* the union of the rasterizations of these geometries, each on its own
\* empty canvas of the image's size
IndependentUnion(img, label) ==
    UNION {draw_mask(img.geos[i], empty_mask(img)).fg : i \in WithLabel(img, label)}

Orderings(n) == {f \in [1..n -> 1..n] : \A i, j \in 1..n : f[i] = f[j] => i = j}

\* C2: mask_combined(L) is the union of the independent rasterizations of
\* the geometries with label L, whatever their group_id; the same for every
\* permutation of the geometries and with every geometry repeated; all-zero
\* when no geometry has label L.
C2_CombinedIsUnion ==
    op.name = "mask_combined" =>
        /\ ret = [w |-> image.width, h |-> image.height,
                  fg |-> IndependentUnion(image, op.label)]
        /\ \A f \in Orderings(Len(image.geos)) :
              mask_combined([image EXCEPT !.geos = [i \in DOMAIN @ |-> @[f[i]]]],
                            op.label) = ret
        /\ mask_combined([image EXCEPT !.geos = @ \o @], op.label) = ret
        /\ WithLabel(image, op.label) = {} => ret.fg = {}

\* two geometries of the label, in different groups, neither covering the
\* other
C2_Witness ==
    /\ op.name = "mask_combined"
    /\ \E i, j \in WithLabel(image, op.label) :
          /\ image.geos[i].group # image.geos[j].group
          /\ draw_mask(image.geos[i], empty_mask(image)).fg # {}
          /\ ~(draw_mask(image.geos[j], empty_mask(image)).fg
                 \subseteq draw_mask(image.geos[i], empty_mask(image)).fg)
          /\ ret.fg # draw_mask(image.geos[j], empty_mask(image)).fg

\* the image a call of SpecImage looks at
Target == IF op.filename = filename(Sibling) THEN Sibling ELSE image

GroupsOf(img, label) ==
    {img.geos[i].group : i \in WithLabel(img, label)} \ {NoGroup}

Ungrouped(img, label) == {i \in WithLabel(img, label) : img.geos[i].group = NoGroup}

\* C3: Image::mask(label) and CVATMaskGenerator::masks(filename, label)
\* return exactly one mask per distinct group_id among the geometries with
\* the label, plus one mask per geometry of the label without group_id.
C3_OneMaskPerGroup ==
    op.name \in {"mask", "generator_masks"} =>
        Len(ret) = Cardinality(GroupsOf(Target, op.label))
                     + Cardinality(Ungrouped(Target, op.label))

\* What both return: one Mat per geometry of the label, in document order;
\* the Mats of the geometries of one group share one buffer, holding the
\* union of the group, and a geometry without group has a buffer of its own.
MaskOneEntryPerGeometry ==
    op.name \in {"mask", "generator_masks"} =>
        LET at == [k \in 1..Cardinality(WithLabel(Target, op.label)) |->
                      CHOOSE i \in WithLabel(Target, op.label) :
                          Cardinality({j \in WithLabel(Target, op.label) : j < i}) = k - 1]
            geo(k) == Target.geos[at[k]]
        IN  /\ Len(ret) = Cardinality(WithLabel(Target, op.label))
            /\ \A k \in DOMAIN ret :
                  ret[k].fg =
                      IF geo(k).group = NoGroup
                      THEN draw_mask(geo(k), empty_mask(Target)).fg
                      ELSE UNION {draw_mask(geo(m), empty_mask(Target)).fg :
                                     m \in {n \in DOMAIN ret : geo(n).group = geo(k).group}}
            /\ \A k, m \in DOMAIN ret :
                  (ret[k].data = ret[m].data) <=>
                      (k = m \/ (geo(k).group # NoGroup /\ geo(k).group = geo(m).group))

\* C10: Image::masks() returns, for each label occurring in the image, the
\* union of the rasterizations of that label's geometries; no geometry is
\* drawn onto the mask of another label.
C10_MasksPerLabel ==
    op.name = "masks" =>
        /\ DOMAIN ret = {image.geos[i].label : i \in DOMAIN image.geos}
        /\ \A l \in DOMAIN ret : ret[l].fg = IndependentUnion(image, l)

\* What holds of Image::masks() when no group_id is shared between labels.
MasksPerLabelUnlessSharedGroup ==
    (op.name = "masks"
       /\ \A i, j \in DOMAIN image.geos :
             (image.geos[i].group # NoGroup /\ image.geos[i].group = image.geos[j].group)
                => image.geos[i].label = image.geos[j].label)
        => /\ DOMAIN ret = {image.geos[i].label : i \in DOMAIN image.geos}
           /\ \A l \in DOMAIN ret : ret[l].fg = IndependentUnion(image, l)

(***************************************************************************)
(* Claims about write_masks_to_directory and main (Spec)                    *)
(***************************************************************************)
Returned == pc \in {"returned", "exit0"}

Ended == pc \in {"exit0", "exit1"}

\* file name without its extension
Stem(name) ==
    IF LastDot(name) <= 1 \/ name = <<".", ".">> THEN name
    ELSE SubSeq(name, 1, LastDot(name) - 1)

\* the masks written for image i and the label at position l of the catalog
WritesFor(i, l) == {w \in writes : w.task = i /\ w.li = l /\ w.result = "ok"}

\* C1: when write_masks_to_directory has returned (and no write was refused
\* by the disk), exactly one mask has been written for every image and every
\* label, at <L>/<name with extension replaced by .png>, |labels| x |images|
\* masks in all, images without width or height included.
C1_OneMaskPerPair ==
    (Returned /\ sink = "ok") =>
        /\ \A i \in DOMAIN images(doc), l \in DOMAIN labels(doc) :
              /\ Cardinality(WritesFor(i, l)) = 1
              /\ \A w \in WritesFor(i, l) :
                    w.path = <<labels(doc)[l],
                               Stem(images(doc)[i].name) \o <<".", "png">>>>
        /\ Cardinality({w \in writes : w.result = "ok"})
              = Len(labels(doc)) * Len(images(doc))

\* What holds instead: every pair of an image with width and height is
\* written once, and no mask of an image without them is written at all.
OneMaskPerNonEmptyImage ==
    (Returned /\ sink = "ok") =>
        \A i \in DOMAIN images(doc), l \in DOMAIN labels(doc) :
            Cardinality(WritesFor(i, l))
                = IF cv_Mat_empty(empty_mask(images(doc)[i])) THEN 0 ELSE 1

\* C6: a run in which a write failed inside a task never ends with exit
\* code 0.
C6_FailureSurfaces ==
    pc = "exit0" => \A w \in writes : w.result = "ok"

\* C7: a document that cannot be parsed or has no annotations root or no
\* label catalog ends the run with a non-zero exit code, no label directory
\* created and no mask written.
C7_ParseErrorFatal ==
    (Ended /\ ~(doc.root /\ doc.catalog)) =>
        pc = "exit1" /\ dirs = {} /\ writes = {}

\* What holds of such a document: nothing is created or written.
NoOutputWithoutCatalog ==
    ~(doc.root /\ doc.catalog) => dirs = {} /\ writes = {}

C9_WaitsForAllTasks ==
    /\ (Returned \/ Ended) => \A i \in DOMAIN task : task[i].st # "running"
    /\ Returned => \A i \in DOMAIN task : task[i].st \in {"done", "threw"}
    /\ (\E i \in DOMAIN task : task[i].st # "unlaunched")
          => dirs = {labels(doc)[l] : l \in DOMAIN labels(doc)}

\* returned with two tasks over, one by returning and one by throwing
C9_Witness ==
    /\ pc = "returned"
    /\ Len(labels(doc)) > 1
    /\ \E i, j \in DOMAIN task : task[i].st = "done" /\ task[j].st = "threw"
====
